---- MODULE Spec2Model ----
(***************************************************************************)
(* State-machine model of opcua_plc_simulator.py: the address-space        *)
(* builder (PlcSimulator.setup, _ensure_object_path, _split_path), the     *)
(* type coercion (_to_bool, _cast) and the tick scheduler with its six     *)
(* value generators (PlcSimulator.run, PlcSimulator._tick).                *)
(*                                                                         *)
(* Representation of Python data:                                          *)
(*  - a scalar value is a record [k, n, s]: k is its Python kind; a bool   *)
(*    has n in {0,1}; an int has n; a float has n counted in units of      *)
(*    1/FScale (fixed point); a string is either the decimal text of an    *)
(*    int (k = "strint", n), the text of a float (k = "strfloat", n in     *)
(*    units of 1/FScale) or any other text (k = "text", s);                *)
(*  - a path string is the sequence of its tokens, a token being "/" or a  *)
(*    maximal slash-free piece;                                            *)
(*  - time.monotonic() is counted in milliseconds, so that                 *)
(*    now + interval_ms / 1000.0 (seconds) is clock + interval_ms.         *)
(***************************************************************************)
EXTENDS Integers, Sequences, FiniteSets, TLC

VARIABLES
  cfg,        \* self.cfg: the loaded configuration
  ns_idx,     \* the index the substrate returns from register_namespace
  nodes,      \* the substrate: the nodes created so far, a handle is an index (0 = Objects)
  cache,      \* objects_cache: normalized path -> handle
  bindings,   \* self.bindings
  clock,      \* time.monotonic(), in ms
  pc,         \* where the process is
  item,       \* index of the next entry of model.variables in setup
  now,        \* the local `now` of the tick in progress
  bi,         \* index of the binding the tick's for loop is at
  ops,        \* history: substrate reads/writes issued by the tick in progress
  visited,    \* history: outcome of each binding visited by the tick in progress
  tickStart,  \* history: self.bindings as the tick in progress found it
  hist,       \* history per binding: due ticks so far, failures so far, last write attempt
  prevFail,   \* history: bindings whose read failed in the previous tick
  ramp        \* the inputs and output of one call of the ramp generator (SpecRamp)

vars == <<cfg, ns_idx, nodes, cache, bindings, clock, pc, item, now, bi, ops,
          visited, tickStart, hist, prevFail, ramp>>

----------------------------------------------------------------------------
(* Bounds of the model *)

FScale == 2        \* floats are multiples of 1/FScale
MaxClock == 2500   \* the clock is observed up to this many ms
MaxVars == 2       \* longest model.variables list drawn for the builder

----------------------------------------------------------------------------
(* Python scalars *)

VBool(b) == [k |-> "bool", n |-> IF b THEN 1 ELSE 0, s |-> ""]
VInt(i) == [k |-> "int", n |-> i, s |-> ""]
VFloat(h) == [k |-> "float", n |-> h, s |-> ""]
VStrInt(i) == [k |-> "strint", n |-> i, s |-> ""]
VStrFloat(h) == [k |-> "strfloat", n |-> h, s |-> ""]
VText(t) == [k |-> "text", n |-> 0, s |-> t]
\* the outcome of an expression that raises
Raised == [k |-> "raise", n |-> 0, s |-> ""]
\* a whole number w and f units of 1/FScale, as a float
Fl(w, f) == VFloat(w * FScale + f)

\* str.strip().lower() on the texts the model uses
LowerStrip(t) ==
  CASE t = "True" -> "true"
    [] t = "False" -> "false"
    [] t = " On " -> "on"
    [] t = "YES" -> "yes"
    [] t = "Int" -> "int"
    [] t = " float " -> "float"
    [] t = "Toggle" -> "toggle"
    [] t = " cycle " -> "cycle"
    [] OTHER -> t

\* str.lower() alone keeps the surrounding blanks
Lower(t) ==
  CASE t = "True" -> "true"
    [] t = "False" -> "false"
    [] t = " On " -> " on "
    [] t = "YES" -> "yes"
    [] t = "Int" -> "int"
    [] t = "Toggle" -> "toggle"
    [] OTHER -> t

\* str(value)
PyStr(v) ==
  CASE v.k = "bool" -> VText(IF v.n = 1 THEN "True" ELSE "False")
    [] v.k = "int" -> VStrInt(v.n)
    [] v.k = "float" -> VStrFloat(v.n)
    [] OTHER -> v

\* float(value): raises ValueError on a text that is no number
PyFloat(v) ==
  CASE v.k \in {"bool", "int", "strint"} -> VFloat(v.n * FScale)
    [] v.k \in {"float", "strfloat"} -> VFloat(v.n)
    [] OTHER -> Raised

\* int(x) of a float x: truncation toward zero
Trunc(h) == IF h >= 0 THEN h \div FScale ELSE -((-h) \div FScale)

to_bool(value) ==
  CASE value.k = "bool" -> value.n = 1
    [] value.k \in {"int", "float"} -> value.n # 0
    [] value.k = "strint" -> value.n = 1
    [] value.k = "strfloat" -> FALSE
    [] OTHER -> LowerStrip(value.s) \in {"1", "true", "yes", "on"}

cast(dtype, value) ==
  LET d == LowerStrip(dtype)
      f == PyFloat(value)
  IN  IF value = Raised THEN Raised
      ELSE IF d \in {"bool", "boolean"} THEN VBool(to_bool(value))
      ELSE IF d \in {"int", "integer", "int32", "int64", "uint16", "uint32"}
           THEN IF f = Raised THEN Raised ELSE VInt(Trunc(f.n))
      ELSE IF d \in {"float", "double", "number"} THEN f
      ELSE PyStr(value)

\* dict.get(key, default)
Get(d, key, default) == IF key \in DOMAIN d THEN d[key] ELSE default

----------------------------------------------------------------------------
(* Path strings *)

RECURSIVE SplitFrom(_, _, _)
SplitFrom(p, i, cur) ==
  IF i > Len(p) THEN <<cur>>
  ELSE IF p[i] = "/" THEN <<cur>> \o SplitFrom(p, i + 1, "")
  ELSE SplitFrom(p, i + 1, cur \o p[i])

\* str.split("/"): the pieces between slashes, the empty ones included
Split(p) == SplitFrom(p, 1, "")

RECURSIVE JoinSlash(_)
\* "/".join(pieces)
JoinSlash(pieces) ==
  IF Len(pieces) = 0 THEN <<>>
  ELSE IF Len(pieces) = 1 THEN <<pieces[1]>>
  ELSE <<pieces[1], "/">> \o JoinSlash(Tail(pieces))

\* "/".join([p for p in str(path).split("/") if p])
Clean(path) == JoinSlash(SelectSeq(Split(path), LAMBDA p : p # ""))

\* str.replace("/", ".")
ReplaceSlash(p) == [i \in DOMAIN p |-> IF p[i] = "/" THEN "." ELSE p[i]]

RECURSIVE Text(_)
\* the characters of a token sequence, as one string
Text(p) == IF Len(p) = 0 THEN "" ELSE p[1] \o Text(Tail(p))

\* the index of the last "/" of p, 0 when there is none
LastSlash(p) ==
  LET S == {i \in DOMAIN p : p[i] = "/"}
  IN  IF S = {} THEN 0 ELSE CHOOSE i \in S : \A j \in S : j <= i

split_path(path) ==
  LET clean == Clean(path)
      k == LastSlash(clean)
  IN  IF k = 0 THEN [parent |-> <<>>, leaf |-> clean]
      ELSE [parent |-> SubSeq(clean, 1, k - 1),
            leaf |-> SubSeq(clean, k + 1, Len(clean))]

\* f"ns={ns_idx};s={...}"
NodeIdOf(ns, p) == "ns=" \o ToString(ns) \o ";s=" \o Text(ReplaceSlash(p))

----------------------------------------------------------------------------
(* The substrate and the address-space builder *)

NoValue == VText("")

ObjectNode(node_id, parent, name) ==
  [nodeid |-> node_id, parent |-> parent, name |-> name, kind |-> "object",
   value |-> NoValue, writable |-> FALSE, src |-> 0]

\* src is history: the index in model.variables of the entry the node was made for
VariableNode(node_id, parent, name, initial, writable, src) ==
  [nodeid |-> node_id, parent |-> parent, name |-> name, kind |-> "variable",
   value |-> initial, writable |-> writable, src |-> src]

\* The substrate may refuse (raise on) a node whose identifier is already taken.
Refused(ns_nodes, node_id, reject) ==
  reject /\ \E h \in DOMAIN ns_nodes : ns_nodes[h].nodeid = node_id

\* parent.add_object / parent.add_variable: st is [nodes, cache, node, ok];
\* ok = FALSE stands for the exception the call raised.
AddNode(st, rec, reject) ==
  IF Refused(st.nodes, rec.nodeid, reject)
  THEN [st EXCEPT !.ok = FALSE]
  ELSE [st EXCEPT !.nodes = Append(st.nodes, rec), !.node = Len(st.nodes) + 1]

\* a builder that never finds a path in its cache
CachedNever(st, norm) == FALSE

\* line 200: norm in cache
Cached(st, norm) == norm \in DOMAIN st.cache

RECURSIVE ensure_object_path(_, _, _, _)
ensure_object_path(st, ns, path, reject) ==
  LET norm == Clean(path)
  IN  IF Cached(st, norm)
      THEN [st EXCEPT !.node = st.cache[norm]]
      ELSE LET sp == split_path(norm)
               up == IF norm # <<>>
                     THEN ensure_object_path(st, ns, sp.parent, reject)
                     ELSE [st EXCEPT !.node = 0]
           IN  IF ~up.ok \/ norm = <<>> THEN up
               ELSE LET made == AddNode(up, ObjectNode(NodeIdOf(ns, norm), up.node,
                                                       Text(sp.leaf)), reject)
                    IN  IF ~made.ok THEN made
                        ELSE [made EXCEPT
                                !.cache = [q \in DOMAIN made.cache \cup {norm} |->
                                             IF q = norm THEN made.node
                                             ELSE made.cache[q]]]

----------------------------------------------------------------------------
(* PlcSimulator.__init__ and PlcSimulator.setup *)

DefaultTickMs == 1000
default_tick_ms == Get(cfg.server, "tick_ms", DefaultTickMs)
root_name == Get(cfg.model, "root", <<"Machine">>)

IsDict(x) == "scalar" \notin DOMAIN x

\* next_due of a new binding (line 194)
SetupDue(t, interval_ms) == t + interval_ms

SimBinding(node, node_id, dtype, simulation, next_due) ==
  [node |-> node, node_id |-> node_id, dtype |-> dtype, simulation |-> simulation,
   next_due |-> next_due, cycle_index |-> 0, phase |-> 0]

\* history of a binding: when it was made, its due ticks so far, whether every read
\* and write succeeded so far, the times of its last two write attempts (-1: none)
\* and whether each of them failed
NewHist(t) ==
  [made |-> t, due |-> 0, ok |-> TRUE, tried |-> -1, failed |-> FALSE,
   prev |-> -1, prevfailed |-> FALSE]

Attempt(h, t, failed) ==
  [h EXCEPT !.due = @ + 1, !.ok = @ /\ ~failed, !.tried = t, !.failed = failed,
            !.prev = h.tried, !.prevfailed = h.failed]

\* the identifier of a variable (lines 170-177)
VariableNodeId(ns, it, path) ==
  LET raw_node_id == Get(it, "node_id", <<>>)
  IN  IF raw_node_id # <<>>
      THEN IF raw_node_id[1] = "ns=" THEN Text(raw_node_id)
           ELSE "ns=" \o ToString(ns) \o ";s=" \o Text(raw_node_id)
      ELSE NodeIdOf(ns, path)

ItemName(it) == IF Get(it, "name", "") # "" THEN it.name ELSE "Variable"
ItemPath(it) ==
  IF Get(it, "path", <<>>) # <<>> THEN it.path
  ELSE root_name \o <<"/", ItemName(it)>>
ItemType(it) == Lower(IF Get(it, "type", "") # "" THEN it.type ELSE "float")
ItemInitial(it) ==
  cast(ItemType(it),
       Get(it, "initial", IF ItemType(it) = "bool" THEN VBool(FALSE) ELSE VInt(0)))
\* a setup that binds every entry with a simulation block, whatever its mode
HasSimulationAny(it) == "simulation" \in DOMAIN it

\* line 184: isinstance(sim_cfg, dict) and sim_cfg.get("mode")
HasSimulation(it) ==
  "simulation" \in DOMAIN it /\ Get(it.simulation, "mode", "") # ""

\* a registry that puts the newest binding first
RegisterFirst(registry, b) == <<b>> \o registry

\* line 186: self.bindings.append(...)
Register(registry, b) == Append(registry, b)

\* lines 136-155: the namespace, the cache, the root container, the list test
SetupBegin ==
  /\ pc = "setup"
  /\ LET st0 == [nodes |-> <<>>, cache |-> (<<>> :> 0), node |-> 0, ok |-> TRUE]
         r == ensure_object_path(st0, ns_idx, root_name, FALSE)
     IN  /\ nodes' = r.nodes
         /\ cache' = r.cache
         /\ pc' = IF cfg.model.variables_is_list THEN "items" ELSE "setup_failed"
  /\ item' = 1
  /\ UNCHANGED <<cfg, ns_idx, bindings, clock, now, bi, ops, visited, tickStart, hist,
                 prevFail, ramp>>

\* one pass of the for loop of lines 157-196; d is the time the pass takes
SetupItem ==
  /\ pc = "items"
  /\ item <= Len(cfg.model.variables)
  /\ item' = item + 1
  /\ LET it == cfg.model.variables[item]
     IN  IF ~IsDict(it)
         THEN UNCHANGED <<nodes, cache, bindings, hist, clock, pc>>
         ELSE \E reject \in BOOLEAN, d \in {0, 500} :
           LET path == ItemPath(it)
               dtype == ItemType(it)
               initial == ItemInitial(it)
               sp == split_path(path)
               st == [nodes |-> nodes, cache |-> cache, node |-> 0, ok |-> TRUE]
               up == ensure_object_path(st, ns_idx, sp.parent, reject)
               node_id == VariableNodeId(ns_idx, it, path)
               made == AddNode(up, VariableNode(node_id, up.node, Text(sp.leaf), initial,
                                                Get(it, "writable", TRUE), item), reject)
               interval_ms == Get(it.simulation, "interval_ms", default_tick_ms)
           IN  /\ clock + d <= MaxClock
               /\ clock' = clock + d
               /\ IF initial = Raised
                  THEN pc' = "setup_failed" /\ UNCHANGED <<nodes, cache, bindings, hist>>
                  ELSE IF ~up.ok
                  THEN /\ pc' = "setup_failed"
                       /\ nodes' = up.nodes
                       /\ cache' = up.cache
                       /\ UNCHANGED <<bindings, hist>>
                  ELSE IF ~made.ok
                  THEN /\ pc' = "setup_failed"
                       /\ nodes' = made.nodes
                       /\ cache' = made.cache
                       /\ UNCHANGED <<bindings, hist>>
                  ELSE /\ pc' = pc
                       /\ nodes' = made.nodes
                       /\ cache' = made.cache
                       /\ IF HasSimulation(it)
                          THEN /\ bindings' =
                                    Register(bindings,
                                             SimBinding(made.node, node_id, dtype,
                                                        it.simulation,
                                                        SetupDue(clock', interval_ms)))
                               /\ hist' = Append(hist, NewHist(clock'))
                          ELSE UNCHANGED <<bindings, hist>>
  /\ UNCHANGED <<cfg, ns_idx, now, bi, ops, visited, tickStart, prevFail, ramp>>

\* setup returns; _main goes on to run()
SetupDone ==
  /\ pc = "items"
  /\ item > Len(cfg.model.variables)
  /\ pc' = "run"
  /\ UNCHANGED <<cfg, ns_idx, nodes, cache, bindings, clock, item, now, bi, ops,
                 visited, tickStart, hist, prevFail, ramp>>

----------------------------------------------------------------------------
(* The value generators of PlcSimulator._tick (lines 240-283) *)

\* Python's min(a, b) and max(a, b): the first argument unless the second beats it
PyMin(a, b) == IF b < a THEN b ELSE a
PyMax(a, b) == IF b > a THEN b ELSE a

\* what random.uniform(a, b) may return, on the fixed-point grid
Uniform(a, b) == PyMin(a, b) .. PyMax(a, b)

\* a ramp that wraps on reaching the maximum
RampInclusive(current, step, minimum, maximum) ==
  LET cur0 == current + step
      cur1 == IF cur0 >= maximum THEN minimum ELSE cur0
  IN  IF cur1 < minimum THEN maximum ELSE cur1

\* lines 269-274, on floats counted in units of 1/FScale
Ramp(current, step, minimum, maximum) ==
  LET cur0 == current + step
      cur1 == IF cur0 > maximum THEN minimum ELSE cur0
  IN  IF cur1 < minimum THEN maximum ELSE cur1

\* a random walk clamped from below only
RandomWalkNoCeiling(current, delta, minimum, maximum) ==
  PyMax(minimum, current + delta)

\* lines 250-252 for one drawn delta
RandomWalk(current, delta, minimum, maximum) ==
  PyMax(minimum, PyMin(maximum, current + delta))

\* a cycle that uses the index before advancing it
NextCycleIndexSame(cycle_index, n) == cycle_index % n

\* line 262
NextCycleIndex(cycle_index, n) == (cycle_index + 1) % n

\* a test that takes any values entry for a list
UsableValuesAny(simulation) == Get(simulation, "values", <<>>)

\* isinstance(values, list) and values
UsableValues(simulation) ==
  IF Get(simulation, "values_scalar", FALSE) THEN <<>>
  ELSE Get(simulation, "values", <<>>)

\* The phase field counts accumulated interval_ms: the phase in radians is
\* 2*pi * phase / max(period_ms, 10). The sine is exact at the quarter turns
\* and any grid value of [-1, 1] elsewhere.
SineValues(phase, period, minimum, maximum) ==
  LET P == PyMax(period, 10 * FScale)
      center == (maximum + minimum) \div 2
      amp == (maximum - minimum) \div 2
      q == ((4 * phase * FScale) \div P) % 4
  IN  IF (4 * phase * FScale) % P = 0
      THEN {IF q = 1 THEN center + amp ELSE IF q = 3 THEN center - amp ELSE center}
      ELSE Uniform(center - amp, center + amp)

\* The outcomes of lines 240-283 for binding b and the value read: each is the
\* new_value (Raised when a conversion raises) with the generator state b is left with.
Generate(b, current, interval_ms) ==
  LET sim == b.simulation
      mode == LowerStrip(Get(sim, "mode", ""))
      out(v) == [new_value |-> v, cycle_index |-> b.cycle_index, phase |-> b.phase]
      step == PyFloat(Get(sim, "step", Fl(1, 0)))
      minimum == PyFloat(Get(sim, "min", Fl(0, 0)))
      maximum == PyFloat(Get(sim, "max", Fl(100, 0)))
      period_ms == PyFloat(Get(sim, "period_ms", Fl(5000, 0)))
      cur == PyFloat(current)
      values == UsableValues(sim)
  IN  CASE mode = "toggle" -> {out(VBool(~to_bool(current)))}
        [] mode = "random_walk" ->
             IF Raised \in {step, minimum, maximum, cur} THEN {out(Raised)}
             ELSE {out(VFloat(RandomWalk(cur.n, delta, minimum.n, maximum.n))) :
                     delta \in Uniform(-step.n, step.n)}
        [] mode = "random_choice" ->
             IF values # <<>> THEN {out(values[i]) : i \in DOMAIN values}
             ELSE {out(current)}
        [] mode = "cycle" ->
             IF values # <<>>
             THEN LET idx == NextCycleIndex(b.cycle_index, Len(values))
                  IN  {[new_value |-> values[idx + 1], cycle_index |-> idx,
                        phase |-> b.phase]}
             ELSE {out(current)}
        [] mode = "ramp" ->
             IF Raised \in {step, minimum, maximum, cur} THEN {out(Raised)}
             ELSE {out(VFloat(Ramp(cur.n, step.n, minimum.n, maximum.n)))}
        [] mode = "sine" ->
             IF Raised \in {minimum, maximum, period_ms} THEN {out(Raised)}
             ELSE {[new_value |-> VFloat(v), cycle_index |-> b.cycle_index,
                    phase |-> b.phase + interval_ms] :
                     v \in SineValues(b.phase + interval_ms, period_ms.n,
                                      minimum.n, maximum.n)}
        [] OTHER -> {out(current)}

----------------------------------------------------------------------------
(* PlcSimulator.run and PlcSimulator._tick *)

\* line 231
IntervalOf(b) == Get(b.simulation, "interval_ms", default_tick_ms)

\* a schedule that subtracts the interval
TickDueBack(t, interval_ms) == t - interval_ms

\* line 291
TickDue(t, interval_ms) == t + interval_ms

\* a tick that takes every binding as due
IsDueAlways(t, b) == TRUE

\* line 232: the binding is skipped when this is false
IsDue(t, b) == ~(t < b.next_due)

ReadOp(b, ok, v) == [op |-> "read", b |-> b, ok |-> ok, val |-> v, gen |-> NoValue]
WriteOp(b, ok, v, g) == [op |-> "write", b |-> b, ok |-> ok, val |-> v, gen |-> g]
Visit(b, out) == [b |-> b, out |-> out]

\* line 229: a tick starts and samples the clock
TickBegin ==
  /\ pc = "run"
  /\ pc' = "tick"
  /\ now' = clock
  /\ bi' = 1
  /\ ops' = <<>>
  /\ visited' = <<>>
  /\ tickStart' = bindings
  /\ UNCHANGED <<cfg, ns_idx, nodes, cache, bindings, clock, item, hist, prevFail, ramp>>

InLoop == pc = "tick" /\ bi <= Len(bindings)

\* lines 232-233: not due, continue
TickNotDue ==
  /\ InLoop
  /\ ~IsDue(now, bindings[bi])
  /\ bi' = bi + 1
  /\ visited' = Append(visited, Visit(bi, "notdue"))
  /\ UNCHANGED <<cfg, ns_idx, nodes, cache, bindings, clock, pc, item, now, ops,
                 tickStart, hist, prevFail, ramp>>

\* a read failure that reschedules the binding
TickReadFailedAdvances ==
  /\ pc = "tick"
  /\ bi <= Len(bindings)
  /\ ~(now < bindings[bi].next_due)
  /\ bi' = bi + 1
  /\ bindings' = [bindings EXCEPT ![bi].next_due = now + Get(bindings[bi].simulation,
                                                            "interval_ms", 500)]
  /\ ops' = Append(ops, [op |-> "read", b |-> bi, ok |-> FALSE, val |-> NoValue,
                         gen |-> NoValue])
  /\ visited' = Append(visited, [b |-> bi, out |-> "readfail"])
  /\ hist' = [hist EXCEPT ![bi].due = @ + 1, ![bi].ok = FALSE]
  /\ UNCHANGED <<cfg, ns_idx, nodes, cache, clock, pc, item, now, tickStart,
                 prevFail, ramp>>

\* a read failure that ends the tick
TickReadFailedBreaks ==
  /\ pc = "tick"
  /\ bi <= Len(bindings)
  /\ ~(now < bindings[bi].next_due)
  /\ bi' = Len(bindings) + 1
  /\ ops' = Append(ops, [op |-> "read", b |-> bi, ok |-> FALSE, val |-> NoValue,
                         gen |-> NoValue])
  /\ visited' = Append(visited, [b |-> bi, out |-> "readfail"])
  /\ hist' = [hist EXCEPT ![bi].due = @ + 1, ![bi].ok = FALSE]
  /\ UNCHANGED <<cfg, ns_idx, nodes, cache, bindings, clock, pc, item, now,
                 tickStart, prevFail, ramp>>

\* a tick that steps the cycle index before it reads
TickReadFailedCycles ==
  /\ pc = "tick"
  /\ bi <= Len(bindings)
  /\ ~(now < bindings[bi].next_due)
  /\ bi' = bi + 1
  /\ bindings' = [bindings EXCEPT ![bi].cycle_index = 1 - @]
  /\ ops' = Append(ops, [op |-> "read", b |-> bi, ok |-> FALSE, val |-> NoValue,
                         gen |-> NoValue])
  /\ visited' = Append(visited, [b |-> bi, out |-> "readfail"])
  /\ hist' = [hist EXCEPT ![bi].due = @ + 1, ![bi].ok = FALSE]
  /\ UNCHANGED <<cfg, ns_idx, nodes, cache, clock, pc, item, now, tickStart,
                 prevFail, ramp>>

\* lines 235-238: read_value raises, continue
TickReadFailed ==
  /\ InLoop
  /\ IsDue(now, bindings[bi])
  /\ bi' = bi + 1
  /\ ops' = Append(ops, ReadOp(bi, FALSE, NoValue))
  /\ visited' = Append(visited, Visit(bi, "readfail"))
  /\ hist' = [hist EXCEPT ![bi].due = @ + 1, ![bi].ok = FALSE]
  /\ UNCHANGED <<cfg, ns_idx, nodes, cache, bindings, clock, pc, item, now,
                 tickStart, prevFail, ramp>>

\* lines 240-285 when a conversion raises: the exception leaves _tick and run
TickRaised ==
  /\ InLoop
  /\ IsDue(now, bindings[bi])
  /\ LET b == bindings[bi]
         current == nodes[b.node].value
     IN  \E g \in Generate(b, current, IntervalOf(b)) :
           /\ cast(b.dtype, g.new_value) = Raised
           /\ bindings' = [bindings EXCEPT ![bi].cycle_index = g.cycle_index,
                                           ![bi].phase = g.phase]
           /\ ops' = Append(ops, ReadOp(bi, TRUE, current))
  /\ pc' = "raised"
  /\ visited' = Append(visited, Visit(bi, "raised"))
  /\ hist' = [hist EXCEPT ![bi].due = @ + 1]
  /\ UNCHANGED <<cfg, ns_idx, nodes, cache, clock, item, now, bi, tickStart,
                 prevFail, ramp>>

\* lines 240-291 when write_value succeeds
TickWritten ==
  /\ InLoop
  /\ IsDue(now, bindings[bi])
  /\ LET b == bindings[bi]
         current == nodes[b.node].value
     IN  \E g \in Generate(b, current, IntervalOf(b)) :
           LET casted == cast(b.dtype, g.new_value)
           IN  /\ casted # Raised
               /\ nodes' = [nodes EXCEPT ![b.node].value = casted]
               /\ bindings' = [bindings EXCEPT
                                 ![bi].cycle_index = g.cycle_index,
                                 ![bi].phase = g.phase,
                                 ![bi].next_due = TickDue(now, IntervalOf(b))]
               /\ ops' = ops \o <<ReadOp(bi, TRUE, current),
                                  WriteOp(bi, TRUE, casted, g.new_value)>>
  /\ bi' = bi + 1
  /\ visited' = Append(visited, Visit(bi, "written"))
  /\ hist' = [hist EXCEPT ![bi] = Attempt(@, now, FALSE)]
  /\ UNCHANGED <<cfg, ns_idx, cache, clock, pc, item, now, tickStart, prevFail, ramp>>

\* a write failure that leaves the tick by `continue`, before line 291
TickWriteFailedKeepsDue ==
  /\ InLoop
  /\ IsDue(now, bindings[bi])
  /\ LET b == bindings[bi]
         current == nodes[b.node].value
     IN  \E g \in Generate(b, current, IntervalOf(b)) :
           LET casted == cast(b.dtype, g.new_value)
           IN  /\ casted # Raised
               /\ bindings' = [bindings EXCEPT
                                 ![bi].cycle_index = g.cycle_index,
                                 ![bi].phase = g.phase]
               /\ ops' = ops \o <<ReadOp(bi, TRUE, current),
                                  WriteOp(bi, FALSE, casted, g.new_value)>>
  /\ bi' = bi + 1
  /\ visited' = Append(visited, Visit(bi, "writefail"))
  /\ hist' = [hist EXCEPT ![bi] = Attempt(@, now, TRUE)]
  /\ UNCHANGED <<cfg, ns_idx, nodes, cache, clock, pc, item, now, tickStart,
                 prevFail, ramp>>

\* a write failure that takes back the step of the generator
TickWriteFailedHoldsState ==
  /\ InLoop
  /\ IsDue(now, bindings[bi])
  /\ LET b == bindings[bi]
         current == nodes[b.node].value
     IN  \E g \in Generate(b, current, IntervalOf(b)) :
           LET casted == cast(b.dtype, g.new_value)
           IN  /\ casted # Raised
               /\ bindings' = [bindings EXCEPT
                                 ![bi].next_due = TickDue(now, IntervalOf(b))]
               /\ ops' = ops \o <<ReadOp(bi, TRUE, current),
                                  WriteOp(bi, FALSE, casted, g.new_value)>>
  /\ bi' = bi + 1
  /\ visited' = Append(visited, Visit(bi, "writefail"))
  /\ hist' = [hist EXCEPT ![bi] = Attempt(@, now, TRUE)]
  /\ UNCHANGED <<cfg, ns_idx, nodes, cache, clock, pc, item, now, tickStart,
                 prevFail, ramp>>

\* lines 240-291 when write_value raises: the exception is swallowed
TickWriteFailed ==
  /\ InLoop
  /\ IsDue(now, bindings[bi])
  /\ LET b == bindings[bi]
         current == nodes[b.node].value
     IN  \E g \in Generate(b, current, IntervalOf(b)) :
           LET casted == cast(b.dtype, g.new_value)
           IN  /\ casted # Raised
               /\ bindings' = [bindings EXCEPT
                                 ![bi].cycle_index = g.cycle_index,
                                 ![bi].phase = g.phase,
                                 ![bi].next_due = TickDue(now, IntervalOf(b))]
               /\ ops' = ops \o <<ReadOp(bi, TRUE, current),
                                  WriteOp(bi, FALSE, casted, g.new_value)>>
  /\ bi' = bi + 1
  /\ visited' = Append(visited, Visit(bi, "writefail"))
  /\ hist' = [hist EXCEPT ![bi] = Attempt(@, now, TRUE)]
  /\ UNCHANGED <<cfg, ns_idx, nodes, cache, clock, pc, item, now, tickStart,
                 prevFail, ramp>>

\* the for loop ends and _tick returns to run (line 225)
TickEnd ==
  /\ pc = "tick"
  /\ bi > Len(bindings)
  /\ pc' = "sleep"
  /\ prevFail' = {v.b : v \in {visited[i] : i \in DOMAIN visited} \cap
                          {Visit(b, "readfail") : b \in DOMAIN bindings}}
  /\ UNCHANGED <<cfg, ns_idx, nodes, cache, bindings, clock, item, now, bi, ops,
                 visited, tickStart, hist, ramp>>

\* line 226: asyncio.sleep(max(default_tick_ms, 100) / 1000.0), late by 0 or 500 ms
Sleep ==
  /\ pc = "sleep"
  /\ \E late \in {0, 500} :
       /\ clock + PyMax(default_tick_ms, 100) + late <= MaxClock
       /\ clock' = clock + PyMax(default_tick_ms, 100) + late
  /\ pc' = "run"
  /\ UNCHANGED <<cfg, ns_idx, nodes, cache, bindings, item, now, bi, ops, visited,
                 tickStart, hist, prevFail, ramp>>

\* what a client of the server may write to a node holding v
ClientValues(v) ==
  CASE v.k = "bool" -> {VBool(TRUE), VBool(FALSE)}
    [] v.k = "int" -> {VInt(-1), VInt(3000)}
    [] v.k = "float" -> {Fl(-3, 0), Fl(200, 1)}
    [] OTHER -> {VText("abc")}

\* a client writes a writable variable while the simulator sleeps
ClientWrite ==
  /\ pc = "sleep"
  /\ \E h \in DOMAIN nodes :
       /\ nodes[h].kind = "variable"
       /\ nodes[h].writable
       /\ \E v \in ClientValues(nodes[h].value) :
            /\ v # nodes[h].value
            /\ nodes' = [nodes EXCEPT ![h].value = v]
  /\ UNCHANGED <<cfg, ns_idx, cache, bindings, clock, pc, item, now, bi, ops,
                 visited, tickStart, hist, prevFail, ramp>>

----------------------------------------------------------------------------
(* Configurations *)

P(a, b) == <<a, "/", b>>

Toggler ==
  [name |-> "Toggler", path |-> P("Machine", "Running"), type |-> "bool",
   initial |-> VBool(FALSE), writable |-> TRUE,
   simulation |-> [mode |-> "toggle", interval_ms |-> 1000]]

\* a toggle that takes the interval from server.tick_ms and is not writable
Blink ==
  [name |-> "Blink", type |-> "bool", writable |-> FALSE,
   simulation |-> [mode |-> "Toggle"]]

\* a negative interval
Eager ==
  [name |-> "Eager", type |-> "bool", initial |-> VText(" On "),
   simulation |-> [mode |-> "toggle", interval_ms |-> -500]]

Walker ==
  [name |-> "Walker", path |-> P("Machine", "Temperature"), type |-> "float",
   initial |-> Fl(21, 0), writable |-> TRUE,
   simulation |-> [mode |-> "random_walk", min |-> VInt(20), max |-> VInt(110),
                   step |-> Fl(1, 1), interval_ms |-> 1000]]

\* a random walk with a large step
Jumpy ==
  [name |-> "Jumpy", type |-> "float", initial |-> Fl(21, 0),
   simulation |-> [mode |-> "random_walk", min |-> VInt(20), max |-> VInt(23),
                   step |-> VInt(-4), interval_ms |-> 1000]]

\* a random walk on an integer node between 0.5 and 2.5
Count ==
  [name |-> "Count", type |-> "int", initial |-> VInt(1), writable |-> FALSE,
   simulation |-> [mode |-> "random_walk", min |-> Fl(0, 1), max |-> Fl(2, 1),
                   step |-> VInt(1), interval_ms |-> 1000]]

\* a random walk on an integer node between 0 and 2
Steps ==
  [name |-> "Steps", type |-> "int", initial |-> VInt(1), writable |-> FALSE,
   simulation |-> [mode |-> "random_walk", min |-> VInt(0), max |-> VInt(2),
                   step |-> Fl(1, 1), interval_ms |-> 1000]]

Ramper ==
  [name |-> "Ramper", path |-> P("Machine", "RPM"), type |-> "int",
   initial |-> VInt(2850), writable |-> TRUE,
   simulation |-> [mode |-> "ramp", min |-> VInt(0), max |-> VInt(3000),
                   step |-> VInt(150), interval_ms |-> 800]]

Cycler ==
  [name |-> "Cycler", path |-> P("Machine", "Mode"), type |-> "string",
   initial |-> VText("Idle"), writable |-> TRUE,
   simulation |-> [mode |-> "cycle",
                   values |-> <<VText("Idle"), VText("Setup"), VText("Auto"),
                                VText("Alarm")>>,
                   interval_ms |-> 500]]

\* a cycle over one value
Single ==
  [name |-> "Single", type |-> "string", initial |-> VText("Idle"),
   simulation |-> [mode |-> " cycle ", values |-> <<VText("Idle")>>,
                   interval_ms |-> 500]]

\* a cycle whose values are coerced to the declared type
Flag ==
  [name |-> "Flag", type |-> "bool", writable |-> FALSE,
   simulation |-> [mode |-> "cycle", values |-> <<VText("off"), VText("YES")>>,
                   interval_ms |-> 1000]]

\* a cycle over two values on a node no client can write
Pair ==
  [name |-> "Pair", type |-> "string", initial |-> VText("Idle"), writable |-> FALSE,
   simulation |-> [mode |-> "cycle", values |-> <<VText("Idle"), VText("Setup")>>,
                   interval_ms |-> 500]]

\* a cycle with no values, and one whose values entry is not a list
Empty ==
  [name |-> "Empty", type |-> "string", initial |-> VText("Idle"),
   simulation |-> [mode |-> "cycle", values |-> <<>>, interval_ms |-> 1000]]
Scalar ==
  [name |-> "Scalar", type |-> "int", initial |-> VInt(5),
   simulation |-> [mode |-> "random_choice", values |-> <<VInt(7)>>,
                   values_scalar |-> TRUE, interval_ms |-> 1000]]

Chooser ==
  [name |-> "Chooser", path |-> P("Machine", "Alarm"), type |-> "bool",
   initial |-> VBool(FALSE), writable |-> TRUE,
   simulation |-> [mode |-> "random_choice",
                   values |-> <<VBool(TRUE), VBool(FALSE), VBool(FALSE), VBool(FALSE)>>,
                   interval_ms |-> 1000]]

\* an integer node whose values list holds a text
Level ==
  [name |-> "Level", type |-> "int", initial |-> VInt(0), writable |-> FALSE,
   simulation |-> [mode |-> "cycle", values |-> <<VInt(1), VText("High")>>,
                   interval_ms |-> 500]]

\* a ramp on a string node
Label ==
  [name |-> "Label", type |-> "string", initial |-> VText("Idle"), writable |-> FALSE,
   simulation |-> [mode |-> "ramp", interval_ms |-> 1000]]

Wave ==
  [name |-> "Wave", type |-> "float", initial |-> Fl(65, 0), writable |-> FALSE,
   simulation |-> [mode |-> "sine", min |-> VInt(20), max |-> VInt(110),
                   period_ms |-> VInt(4000), interval_ms |-> 1000]]

\* a mode that is none of the six
Hold ==
  [name |-> "Hold", type |-> "int", initial |-> VInt(4),
   simulation |-> [mode |-> "hold", interval_ms |-> 1000]]

\* a simulation block with an empty mode
Muted ==
  [name |-> "Muted", type |-> "int", initial |-> VInt(3), writable |-> FALSE,
   simulation |-> [mode |-> "", interval_ms |-> 1000]]

StackLightGreen ==
  [name |-> "StackLightGreen", path |-> <<"Machine", "/", "StackLight", "/", "Green">>,
   type |-> "bool", initial |-> VBool(TRUE), writable |-> TRUE]

Config(tick, variables) ==
  [server |-> tick,
   model |-> [root |-> <<"Machine">>, variables |-> variables,
              variables_is_list |-> TRUE]]

\* the model.variables lists the tick scheduler is run on
TickVariables ==
  {<<Toggler>>, <<Blink>>, <<Eager>>, <<Walker>>, <<Jumpy>>, <<Count>>, <<Steps>>,
   <<Ramper>>,
   <<Cycler>>, <<Single>>, <<Flag>>, <<Empty>>, <<Scalar>>, <<Chooser>>, <<Level>>,
   <<Label>>, <<Wave>>, <<Hold>>,
   <<Flag, Blink>>, <<Level, Toggler>>, <<StackLightGreen, Single>>, <<Muted>>,
   <<Pair>>}

TickConfigs ==
  {Config([tick_ms |-> 500], v) : v \in TickVariables}
    \cup {Config([endpoint |-> "opc.tcp://0.0.0.0:4840"], <<Blink>>)}

----------------------------------------------------------------------------
(* The process: _main calls setup, then run *)

RampIdle == [current |-> 0, step |-> 0, minimum |-> 0, maximum |-> 0, out |-> 0,
             done |-> FALSE]

InitWith(configs, indices) ==
  /\ cfg \in configs
  /\ ns_idx \in indices
  /\ nodes = <<>>
  /\ cache = (<<>> :> 0)
  /\ bindings = <<>>
  /\ clock = 0
  /\ pc = "setup"
  /\ item = 1
  /\ now = 0
  /\ bi = 1
  /\ ops = <<>>
  /\ visited = <<>>
  /\ tickStart = <<>>
  /\ hist = <<>>
  /\ prevFail = {}
  /\ ramp = RampIdle

Init == InitWith(TickConfigs, {2})

Next ==
  \/ SetupBegin
  \/ SetupItem
  \/ SetupDone
  \/ TickBegin
  \/ TickNotDue
  \/ TickReadFailed
  \/ TickRaised
  \/ TickWritten
  \/ TickWriteFailed
  \/ TickEnd
  \/ Sleep
  \/ ClientWrite

Spec == Init /\ [][Next]_vars

----------------------------------------------------------------------------
(* The ramp generator on its own: one call on drawn inputs *)

RampBound == 2

RampInputs ==
  [current : -RampBound .. RampBound, step : -RampBound .. RampBound,
   minimum : -RampBound .. RampBound, maximum : -RampBound .. RampBound,
   out : {0}, done : {FALSE}]
    \cup [current : {2850, 3000}, step : {150}, minimum : {0}, maximum : {3000},
          out : {0}, done : {FALSE}]

InitRamp ==
  /\ cfg = Config([tick_ms |-> 500], <<>>)
  /\ ns_idx = 2
  /\ nodes = <<>>
  /\ cache = (<<>> :> 0)
  /\ bindings = <<>>
  /\ clock = 0
  /\ pc = "ramp"
  /\ item = 1
  /\ now = 0
  /\ bi = 1
  /\ ops = <<>>
  /\ visited = <<>>
  /\ tickStart = <<>>
  /\ hist = <<>>
  /\ prevFail = {}
  /\ ramp \in RampInputs

RampCall ==
  /\ pc = "ramp"
  /\ ~ramp.done
  /\ ramp' = [ramp EXCEPT
                !.out = Ramp(ramp.current, ramp.step, ramp.minimum, ramp.maximum),
                !.done = TRUE]
  /\ UNCHANGED <<cfg, ns_idx, nodes, cache, bindings, clock, pc, item, now, bi, ops,
                 visited, tickStart, hist, prevFail>>

NextRamp == RampCall

SpecRamp == InitRamp /\ [][NextRamp]_vars

----------------------------------------------------------------------------
(* The address-space builder on its own: setup on drawn model.variables lists *)

Yellow ==
  [name |-> "StackLightYellow",
   path |-> <<"/", "Machine", "/", "/", "StackLight", "/", "Yellow", "/">>,
   type |-> "bool", initial |-> VBool(FALSE), writable |-> TRUE]

Respelled ==
  [name |-> "Running", path |-> <<"/", "Machine", "/", "/", "Running", "/">>,
   type |-> "bool", initial |-> VBool(FALSE)]

\* no path: f"{root_name}/{name}"
Pump == [name |-> "Pump", type |-> "Int", initial |-> Fl(1, 1)]

\* explicit identifiers, without and with the namespace qualifier
Custom == [name |-> "Custom", path |-> P("Plant", "Custom"), node_id |-> <<"Custom">>]
Qualified ==
  [name |-> "Q", path |-> P("Plant", "Q"), node_id |-> <<"ns=", "5;s=Q">>]

\* a one-piece path with a dot in it
Dotted == [name |-> "Dotted", path |-> <<"Machine.StackLight">>, type |-> "bool"]

\* an entry of the list that is no mapping
NotARecord == [scalar |-> TRUE]

\* an initial value that cannot be coerced
Broken == [name |-> "Broken", type |-> "int", initial |-> VText("High")]

BuildItems ==
  {StackLightGreen, Yellow, Toggler, Respelled, Pump, Custom, Qualified, Dotted,
   NotARecord, Broken}

RECURSIVE ListsUpTo(_, _)
ListsUpTo(S, n) ==
  IF n = 0 THEN {<<>>}
  ELSE LET shorter == ListsUpTo(S, n - 1)
       IN  shorter \cup {Append(l, x) : l \in shorter, x \in S}

BuildConfigs ==
  {[server |-> [tick_ms |-> 500],
    model |-> [root |-> r, variables |-> v, variables_is_list |-> TRUE]] :
     r \in {<<"Machine">>, <<"/", "Machine", "/">>}, v \in ListsUpTo(BuildItems, MaxVars)}
    \cup {[server |-> [tick_ms |-> 500],
           model |-> [variables |-> <<>>, variables_is_list |-> FALSE]]}

InitBuild == InitWith(BuildConfigs, {2, 3})

NextBuild ==
  \/ SetupBegin
  \/ SetupItem
  \/ SetupDone

SpecBuild == InitBuild /\ [][NextBuild]_vars

----------------------------------------------------------------------------
(* The loop of run without an end of time. Time is counted from the end of the
   latest sleep: the clock reading stays and every due time moves back by the
   time slept. A due time that has passed stays at the clock reading, since the
   loop only ever asks whether now < next_due. The histories start anew. *)

SleepLive ==
  /\ pc = "sleep"
  /\ \E late \in {0, 500} :
       LET slept == PyMax(default_tick_ms, 100) + late
       IN  bindings' =
             [b \in DOMAIN bindings |->
                [bindings[b] EXCEPT
                   !.next_due = IF @ - slept < clock THEN clock ELSE @ - slept]]
  /\ hist' = [b \in DOMAIN hist |-> NewHist(clock)]
  /\ pc' = "run"
  /\ UNCHANGED <<cfg, ns_idx, nodes, cache, clock, item, now, bi, ops, visited,
                 tickStart, prevFail, ramp>>

LiveVariables ==
  {<<Single>>, <<Cycler>>, <<Eager>>, <<Hold>>, <<Flag, Blink>>, <<Level, Toggler>>}

LiveConfigs ==
  {Config([tick_ms |-> 500], v) : v \in LiveVariables}
    \cup {Config([endpoint |-> "opc.tcp://0.0.0.0:4840"], <<Blink>>)}

InitLive == InitWith(LiveConfigs, {2})

NextLive ==
  \/ SetupBegin
  \/ SetupItem
  \/ SetupDone
  \/ TickBegin
  \/ TickNotDue
  \/ TickReadFailed
  \/ TickRaised
  \/ TickWritten
  \/ TickWriteFailed
  \/ TickEnd
  \/ SleepLive

\* a step of the loop of run: a tick or a sleep
LoopStep ==
  \/ TickBegin
  \/ TickNotDue
  \/ TickReadFailed
  \/ TickRaised
  \/ TickWritten
  \/ TickWriteFailed
  \/ TickEnd
  \/ SleepLive

\* the read of binding b succeeds
ReadSucceeds(b) == bi = b /\ (TickWritten \/ TickWriteFailed)

\* run keeps looping (lines 222-226), and the reads of no binding fail forever
SpecLive ==
  /\ InitLive
  /\ [][NextLive]_vars
  /\ WF_vars(LoopStep)
  /\ \A b \in 1 .. MaxVars : SF_vars(ReadSucceeds(b))

----------------------------------------------------------------------------
(* setup on EXAMPLE_CONFIG (lines 17-95) *)

ExampleRunning ==
  [name |-> "Running", path |-> P("Machine", "Running"), type |-> "bool",
   initial |-> VBool(FALSE), writable |-> TRUE,
   simulation |-> [mode |-> "toggle", interval_ms |-> 3000]]

ExampleAlarm ==
  [name |-> "Alarm", path |-> P("Machine", "Alarm"), type |-> "bool",
   initial |-> VBool(FALSE), writable |-> TRUE,
   simulation |-> [mode |-> "random_choice",
                   values |-> <<VBool(TRUE), VBool(FALSE), VBool(FALSE), VBool(FALSE)>>,
                   interval_ms |-> 4000]]

ExampleTemperature ==
  [name |-> "Temperature", path |-> P("Machine", "Temperature"), type |-> "float",
   initial |-> Fl(42, 0), writable |-> TRUE,
   simulation |-> [mode |-> "random_walk", min |-> VInt(20), max |-> VInt(110),
                   step |-> Fl(1, 1), interval_ms |-> 1000]]

ExampleRPM ==
  [name |-> "RPM", path |-> P("Machine", "RPM"), type |-> "int",
   initial |-> VInt(0), writable |-> TRUE,
   simulation |-> [mode |-> "ramp", min |-> VInt(0), max |-> VInt(3000),
                   step |-> VInt(150), interval_ms |-> 800]]

ExampleMode ==
  [name |-> "Mode", path |-> P("Machine", "Mode"), type |-> "string",
   initial |-> VText("Idle"), writable |-> TRUE,
   simulation |-> [mode |-> "cycle",
                   values |-> <<VText("Idle"), VText("Setup"), VText("Auto"),
                                VText("Alarm")>>,
                   interval_ms |-> 6000]]

StackLightYellow ==
  [name |-> "StackLightYellow", path |-> <<"Machine", "/", "StackLight", "/", "Yellow">>,
   type |-> "bool", initial |-> VBool(FALSE), writable |-> TRUE]

StackLightRed ==
  [name |-> "StackLightRed", path |-> <<"Machine", "/", "StackLight", "/", "Red">>,
   type |-> "bool", initial |-> VBool(FALSE), writable |-> TRUE]

ExampleConfig ==
  [server |-> [endpoint |-> "opc.tcp://0.0.0.0:4840",
               namespace_uri |-> "urn:homeassistant:opcua:plc-simulator",
               tick_ms |-> 500],
   model |-> [root |-> <<"Machine">>,
              variables |-> <<ExampleRunning, ExampleAlarm, ExampleTemperature,
                              ExampleRPM, ExampleMode, StackLightGreen,
                              StackLightYellow, StackLightRed>>,
              variables_is_list |-> TRUE]]

InitExample == InitWith({ExampleConfig}, {2, 3})

SpecExample == InitExample /\ [][NextBuild]_vars

----------------------------------------------------------------------------
(* Properties of the tick scheduler (Spec) *)

\* a tick has begun: now, tickStart, ops and visited are those of the latest tick
InTick == pc \in {"tick", "sleep", "raised"}

OpsOf(b) == {j \in DOMAIN ops : ops[j].b = b}
ModeOf(b) == LowerStrip(Get(b.simulation, "mode", ""))

\* C1: due-time gating. In a tick taken at time now, a binding whose next_due is
\* greater than now is neither read nor written and keeps its next_due,
\* cycle_index and phase; before its first due tick a binding's next_due is the
\* time setup made it plus interval_ms.
DueTimeGating ==
  /\ InTick =>
       \A b \in DOMAIN tickStart :
         tickStart[b].next_due > now =>
           /\ OpsOf(b) = {}
           /\ bindings[b].next_due = tickStart[b].next_due
           /\ bindings[b].cycle_index = tickStart[b].cycle_index
           /\ bindings[b].phase = tickStart[b].phase
  /\ \A b \in DOMAIN bindings :
       hist[b].due = 0 =>
         bindings[b].next_due = hist[b].made + IntervalOf(bindings[b])

\* a finished tick that passed over a binding not yet due
DueTimeGatingWitness ==
  /\ pc = "sleep"
  /\ \E b \in DOMAIN tickStart :
       /\ tickStart[b].next_due > now
       /\ \E i \in DOMAIN visited : visited[i] = Visit(b, "notdue")

\* C2: read failure. A due binding whose read fails is not written in that
\* tick and keeps next_due, cycle_index and phase, so it is still due; in the
\* next tick it is due again and the loop, on reaching it, reads it again.
ReadFailureRetried ==
  /\ InTick =>
       \A i \in DOMAIN visited :
         visited[i].out = "readfail" =>
           LET b == visited[i].b
           IN  /\ \A j \in OpsOf(b) : ops[j].op = "read"
               /\ bindings[b] = tickStart[b]
               /\ bindings[b].next_due <= now
  /\ pc \in {"tick", "raised"} =>
       \A b \in prevFail :
         /\ tickStart[b].next_due <= now
         /\ (b < bi \/ (pc = "raised" /\ b = bi)) =>
              \E j \in OpsOf(b) : ops[j].op = "read"

\* a binding whose read failed in the previous tick has been read in this one
ReadFailureRetriedWitness ==
  /\ pc = "tick"
  /\ \E b \in prevFail : b < bi /\ \E j \in OpsOf(b) : ops[j].op = "read" /\ ops[j].ok

\* C3: write-failure resilience. When the write of a due binding fails, the
\* loop goes on (nothing is raised), the node holds the value that was read, and
\* next_due is now + interval_ms; the next write attempt on the binding comes no
\* sooner than interval_ms after the failed one.
WriteFailureResilience ==
  /\ InTick =>
       \A j \in DOMAIN ops :
         (ops[j].op = "write" /\ ~ops[j].ok) =>
           LET b == ops[j].b
           IN  /\ ~(pc = "raised" /\ bi = b)
               /\ bi > b
               /\ ops[j - 1] = ReadOp(b, TRUE, nodes[bindings[b].node].value)
                    \/ pc = "sleep"
               /\ bindings[b].next_due = now + IntervalOf(bindings[b])
  /\ \A b \in DOMAIN hist :
       hist[b].prevfailed => hist[b].tried >= hist[b].prev + IntervalOf(bindings[b])

\* a write failed, and the binding's previous write attempt had failed too
WriteFailureResilienceWitness ==
  /\ InTick
  /\ \E j \in DOMAIN ops :
       /\ ops[j].op = "write"
       /\ ~ops[j].ok
       /\ hist[ops[j].b].prevfailed

\* C4: no error is ever propagated out of the tick loop.
NoErrorLeavesTick == pc # "raised"

\* C5: next_due only moves forward: after (and during) a tick each binding's
\* next_due is at least what it was when the tick began, for positive and
\* negative interval_ms and any mix of read and write failures.
NextDueOnlyForward ==
  InTick => \A b \in DOMAIN tickStart : bindings[b].next_due >= tickStart[b].next_due

\* a binding with a negative interval was rescheduled by a tick
NextDueOnlyForwardWitness ==
  /\ InTick
  /\ \E b \in DOMAIN tickStart :
       /\ IntervalOf(bindings[b]) < 0
       /\ bindings[b].next_due > tickStart[b].next_due

\* the successful writes, in the tick in progress, of the cycle bindings with a
\* non-empty values list whose reads and writes have all succeeded so far
CycleWrites ==
  {j \in DOMAIN ops :
     /\ ops[j].op = "write"
     /\ ops[j].ok
     /\ ModeOf(bindings[ops[j].b]) = "cycle"
     /\ UsableValues(bindings[ops[j].b].simulation) # <<>>
     /\ hist[ops[j].b].ok}

\* C6 as stated: the k-th due tick writes values[k mod n], and the first list
\* element is never the first value written.
CycleWritesKthElement ==
  InTick =>
    \A j \in CycleWrites :
      LET values == UsableValues(bindings[ops[j].b].simulation)
          k == hist[ops[j].b].due
      IN  /\ ops[j].val = values[(k % Len(values)) + 1]
          /\ k = 1 => ops[j].val # values[1]

\* C6 amended: the k-th due tick selects values[k mod n] and writes it coerced to
\* the declared type; the first value selected is the second list element when
\* n >= 2 and the only element when n = 1.
CycleWritesKthElementCoerced ==
  InTick =>
    \A j \in CycleWrites :
      LET b == bindings[ops[j].b]
          values == UsableValues(b.simulation)
          k == hist[ops[j].b].due
      IN  /\ ops[j].gen = values[(k % Len(values)) + 1]
          /\ ops[j].val = cast(b.dtype, ops[j].gen)
          /\ k = 1 => ops[j].gen = values[IF Len(values) >= 2 THEN 2 ELSE 1]
          /\ b.cycle_index = k % Len(values)

\* the fourth due tick of a four-valued cycle wrote the first element
CycleWritesKthElementWitness ==
  /\ InTick
  /\ \E j \in CycleWrites :
       LET values == UsableValues(bindings[ops[j].b].simulation)
       IN  /\ Len(values) = 4
           /\ hist[ops[j].b].due = 4
           /\ ops[j].val = values[1]

\* the successful and failed writes of the random_walk bindings with min <= max
WalkWrites ==
  {j \in DOMAIN ops :
     LET sim == bindings[ops[j].b].simulation
     IN  /\ ops[j].op = "write"
         /\ ModeOf(bindings[ops[j].b]) = "random_walk"
         /\ PyFloat(Get(sim, "min", Fl(0, 0))).n <= PyFloat(Get(sim, "max", Fl(100, 0))).n}

WalkMin(j) == PyFloat(Get(bindings[ops[j].b].simulation, "min", Fl(0, 0))).n
WalkMax(j) == PyFloat(Get(bindings[ops[j].b].simulation, "max", Fl(100, 0))).n

\* v, a value of any kind, is a number of [lo, hi] (lo, hi in units of 1/FScale)
Within(v, lo, hi) ==
  /\ v.k \in {"bool", "int", "float"}
  /\ LET x == IF v.k = "float" THEN v.n ELSE v.n * FScale
     IN  lo <= x /\ x <= hi

\* C8 as stated: every value a random_walk tick writes lies in [min, max].
WalkWritesWithinBounds ==
  InTick => \A j \in WalkWrites : Within(ops[j].val, WalkMin(j), WalkMax(j))

\* C8 amended: every value the random_walk generator produces lies in
\* [min, max]; the value written is that value coerced to the declared type, and
\* lies in [min, max] when the type is a float type, or an integer type with
\* whole min and max.
WalkGeneratesWithinBounds ==
  InTick =>
    \A j \in WalkWrites :
      LET d == LowerStrip(bindings[ops[j].b].dtype)
          whole == WalkMin(j) % FScale = 0 /\ WalkMax(j) % FScale = 0
      IN  /\ Within(ops[j].gen, WalkMin(j), WalkMax(j))
          /\ ops[j].val = cast(d, ops[j].gen)
          /\ (d \in {"float", "double", "number"}
                \/ (whole /\ d \in {"int", "integer", "int32", "int64", "uint16", "uint32"}))
               => Within(ops[j].val, WalkMin(j), WalkMax(j))

\* a value read above max was walked and written as max
WalkGeneratesWithinBoundsWitness ==
  /\ InTick
  /\ \E j \in WalkWrites :
       /\ ops[j - 1].op = "read"
       /\ PyFloat(ops[j - 1].val).n > WalkMax(j) + FScale
       /\ ops[j].val = VFloat(WalkMax(j))

----------------------------------------------------------------------------
(* Properties of the ramp generator (SpecRamp) *)

\* the rule of the specification: if / else-if
RampRule(current, step, minimum, maximum) ==
  LET cur == current + step
  IN  IF cur > maximum THEN minimum
      ELSE IF cur < minimum THEN maximum
      ELSE cur

\* C7: for every current, step, min and max the ramp generator yields what the
\* if / else-if rule yields; with min = 0, max = 3000, step = 150 it takes 2850
\* to 3000 and 3000 to 0.
RampFollowsRule ==
  ramp.done =>
    /\ ramp.out = RampRule(ramp.current, ramp.step, ramp.minimum, ramp.maximum)
    /\ (ramp.step = 150 /\ ramp.minimum = 0 /\ ramp.maximum = 3000) =>
         /\ ramp.current = 2850 => ramp.out = 3000
         /\ ramp.current = 3000 => ramp.out = 0

\* a call with min > max and a negative step that overshoots max
RampFollowsRuleWitness ==
  /\ ramp.done
  /\ ramp.minimum > ramp.maximum
  /\ ramp.step < 0
  /\ ramp.current + ramp.step > ramp.maximum
  /\ ramp.out = ramp.minimum

----------------------------------------------------------------------------
(* Properties of the address-space builder (SpecBuild) *)

Objects == {h \in DOMAIN nodes : nodes[h].kind = "object"}
Variables == {h \in DOMAIN nodes : nodes[h].kind = "variable"}
ItemOf(h) == cfg.model.variables[nodes[h].src]
ParentPathOf(h) == split_path(ItemPath(ItemOf(h))).parent

\* spellings of container paths, each with and without extra slashes
PathSpellings ==
  {<<>>, <<"/">>, <<"Machine">>, <<"/", "Machine", "/">>,
   <<"Machine", "/", "StackLight">>, <<"/", "Machine", "/", "/", "StackLight", "/">>,
   <<"Plant", "/", "Cell", "/", "Robot">>, <<"Plant", "/", "/", "Cell", "/", "Robot", "/">>}

\* C9: idempotent path creation. No container is created twice under the same
\* parent with the same name; every created container is the cached node of
\* exactly one normalized path and was created after its parent; variables whose
\* parent paths normalize alike hang under the same node, the empty path being
\* the root, for which no node is created; and from every state reached, a
\* second ensure_object_path of a path, however spelled, returns the node of
\* the first and creates nothing.
IdempotentPathCreation ==
  /\ \A g, h \in Objects :
       g # h => <<nodes[g].parent, nodes[g].name>> # <<nodes[h].parent, nodes[h].name>>
  /\ \A h \in Objects :
       /\ Cardinality({q \in DOMAIN cache : cache[q] = h}) = 1
       /\ nodes[h].parent < h
       /\ nodes[h].name # ""
  /\ cache[<<>>] = 0
  /\ \A g, h \in Variables :
       /\ ParentPathOf(g) = ParentPathOf(h) => nodes[g].parent = nodes[h].parent
       /\ ParentPathOf(g) = <<>> => nodes[g].parent = 0
  /\ \A q1, q2 \in PathSpellings :
       Clean(q1) = Clean(q2) =>
         LET st == [nodes |-> nodes, cache |-> cache, node |-> 0, ok |-> TRUE]
             r1 == ensure_object_path(st, ns_idx, q1, FALSE)
             r2 == ensure_object_path(r1, ns_idx, q2, FALSE)
         IN  /\ r2.nodes = r1.nodes
             /\ r2.node = r1.node
             /\ Clean(q1) = <<>> => (r1.node = 0 /\ r1.nodes = nodes)

\* two variables under one created container, the path of the second spelled
\* with extra slashes
IdempotentPathCreationWitness ==
  \E g, h \in Variables :
    /\ g < h
    /\ nodes[g].parent = nodes[h].parent
    /\ nodes[h].parent \in Objects
    /\ nodes[nodes[h].parent].parent \in Objects
    /\ ItemPath(ItemOf(h)) # Clean(ItemPath(ItemOf(h)))
    /\ ItemPath(ItemOf(g)) = Clean(ItemPath(ItemOf(g)))

\* C10: the identifier of every node created without an explicit identifier is
\* ns=<ns_idx>;s=<normalized path with "/" replaced by ".">, for containers and
\* variables alike, so that paths with the same normalization get the same
\* identifier.
IdentifierFromNormalizedPath ==
  /\ \A h \in Variables :
       Get(ItemOf(h), "node_id", <<>>) = <<>> =>
         nodes[h].nodeid = NodeIdOf(ns_idx, Clean(ItemPath(ItemOf(h))))
  /\ \A q \in DOMAIN cache :
       q # <<>> => nodes[cache[q]].nodeid = NodeIdOf(ns_idx, q)

\* C11: when model.variables is not a list, setup fails and, at the moment it
\* fails, no container and no variable node has been created.
NoNodeBeforeFatalError ==
  (pc = "setup_failed" /\ ~cfg.model.variables_is_list) => nodes = <<>>

----------------------------------------------------------------------------
(* Further properties of the tick scheduler (Spec) *)

RandomModes == {"random_walk", "random_choice"}

\* C13: registration-order visiting. The bindings are registered in the order
\* of the entries of model.variables; within a tick the bindings are visited in
\* that order, every read and write is on a binding that was due when the tick
\* reached it, no operation on a binding follows one on a later binding, and a
\* write comes right after the successful read of the same binding; and what a
\* due binding writes is fixed by the value read and the random draw: a mode
\* that draws nothing has one outcome, and two outcomes of the same draw agree.
RegistrationOrderVisiting ==
  /\ \A a, b \in DOMAIN bindings :
       a < b => nodes[bindings[a].node].src < nodes[bindings[b].node].src
  /\ InTick =>
       /\ \A i \in DOMAIN visited : visited[i].b = i
       /\ \A i, j \in DOMAIN ops : i < j => ops[i].b <= ops[j].b
       /\ \A j \in DOMAIN ops :
            /\ ~(now < tickStart[ops[j].b].next_due)
            /\ ops[j].op = "write" =>
                 /\ j > 1
                 /\ ops[j - 1].op = "read" /\ ops[j - 1].ok
                 /\ ops[j - 1].b = ops[j].b
  /\ (InLoop /\ ~(now < bindings[bi].next_due)) =>
       LET b == bindings[bi]
           G == Generate(b, nodes[b.node].value, IntervalOf(b))
       IN  /\ ModeOf(b) \notin RandomModes => Cardinality(G) = 1
           /\ \A g, h \in G : g.new_value = h.new_value => g = h

\* a tick that read and wrote two due bindings, the first registered first
RegistrationOrderVisitingWitness ==
  /\ pc = "sleep"
  /\ Len(bindings) = 2
  /\ Len(ops) = 4
  /\ ops[1].b = 1 /\ ops[2].op = "write" /\ ops[2].b = 1
  /\ ops[3].b = 2 /\ ops[4].op = "write" /\ ops[4].b = 2

\* the entry is a mapping whose simulation block has a non-empty mode
Declares(it) ==
  /\ IsDict(it)
  /\ "simulation" \in DOMAIN it
  /\ "mode" \in DOMAIN it.simulation
  /\ it.simulation.mode # ""

\* the entries of model.variables that setup has gone through
Passed ==
  IF pc = "items" THEN 1 .. (item - 1)
  ELSE IF pc \in {"run", "tick", "sleep", "raised"} THEN DOMAIN cfg.model.variables
  ELSE {}

BoundNodes == {bindings[b].node : b \in DOMAIN bindings}

\* one binding for each entry gone through that declares a mode, none for any other
RegisteredExactly ==
  \A i \in Passed :
    Cardinality({b \in DOMAIN bindings : nodes[bindings[b].node].src = i}) =
      IF Declares(cfg.model.variables[i]) THEN 1 ELSE 0

\* a step taken once setup has returned
EngineFrame ==
  pc \in {"run", "tick", "sleep"} =>
    /\ Len(bindings') = Len(bindings)
    /\ \A b \in DOMAIN bindings :
         [bindings'[b] EXCEPT !.next_due = 0, !.cycle_index = 0, !.phase = 0] =
           [bindings[b] EXCEPT !.next_due = 0, !.cycle_index = 0, !.phase = 0]
    /\ cache' = cache
    /\ Len(nodes') = Len(nodes)
    /\ \A h \in DOMAIN nodes :
         /\ [nodes'[h] EXCEPT !.value = NoValue] = [nodes[h] EXCEPT !.value = NoValue]
         /\ (h \notin BoundNodes /\ nodes'[h].value # nodes[h].value) =>
              (pc = "sleep" /\ pc' = "sleep" /\ nodes[h].writable)
    /\ pc # "sleep" => \A j \in DOMAIN ops' : ops'[j].b \in DOMAIN bindings

\* C14: static variables are never touched by the engine. Setup registers
\* exactly one binding for each mapping entry whose simulation block has a
\* non-empty mode and none for any other entry; after setup no step adds or
\* removes a binding, a container or a node, or changes anything of a binding
\* but next_due, cycle_index and phase; every read and write of a tick is on a
\* binding, and the value of a node without a binding changes only by a
\* client's write while the simulator sleeps.
StaticNeverTouched == [](RegisteredExactly) /\ [][EngineFrame]_vars

\* a tick has written a bound node next to a variable without a simulation
\* block, which still holds its initial value
StaticNeverTouchedWitness ==
  /\ pc = "sleep"
  /\ \E j \in DOMAIN ops : ops[j].op = "write" /\ ops[j].ok
  /\ \E h \in Variables :
       /\ h \notin BoundNodes
       /\ "simulation" \notin DOMAIN ItemOf(h)
       /\ nodes[h].value = ItemInitial(ItemOf(h))

----------------------------------------------------------------------------
(* setup on the example configuration (SpecExample) *)

ContainerPaths == DOMAIN cache \ {<<>>}
BoundNames == {nodes[h].name : h \in BoundNodes}
StaticNames == {nodes[h].name : h \in Variables \ BoundNodes}

\* what setup on the example configuration leaves behind, but for the number
\* of bindings
ExampleNodes ==
  /\ Cardinality(Objects) = 2
  /\ ContainerPaths = {<<"Machine">>, <<"Machine", "/", "StackLight">>}
  /\ Cardinality(Variables) = 8
  /\ StaticNames = {"Green", "Yellow", "Red"}

\* C15 as claimed: setup on the example configuration creates exactly two
\* containers (Machine and Machine/StackLight) and exactly eight variable
\* nodes, six of which have a binding, the three stack-light booleans
\* having none.
ExampleScenarioSix ==
  (cfg = ExampleConfig /\ pc = "run") => (ExampleNodes /\ Len(bindings) = 6)

\* C15: setup on the example configuration completes and creates exactly two
\* containers (Machine and Machine/StackLight) and exactly eight variable
\* nodes, five of which (Running, Alarm, Temperature, RPM, Mode) have a
\* binding each, the three stack-light booleans having none.
ExampleScenarioFive ==
  /\ cfg = ExampleConfig => pc # "setup_failed"
  /\ (cfg = ExampleConfig /\ pc = "run") =>
       /\ ExampleNodes
       /\ Len(bindings) = 5
       /\ Cardinality(BoundNodes) = 5
       /\ BoundNames = {"Running", "Alarm", "Temperature", "RPM", "Mode"}

\* setup on the example configuration has returned
ExampleScenarioWitness ==
  /\ cfg = ExampleConfig
  /\ pc = "run"
  /\ Len(nodes) = 10

----------------------------------------------------------------------------
(* The generator fallback (Spec) *)

KnownModes == {"toggle", "random_walk", "random_choice", "cycle", "ramp", "sine"}

\* the mode is none of the six, or it picks from a values entry that is empty
\* or no list
FallsBack(b) ==
  \/ ModeOf(b) \notin KnownModes
  \/ /\ ModeOf(b) \in {"random_choice", "cycle"}
     /\ \/ Get(b.simulation, "values_scalar", FALSE)
        \/ Get(b.simulation, "values", <<>>) = <<>>

\* the value is of the type the binding declares
OfDeclaredType(dtype, v) ==
  LET d == LowerStrip(dtype)
  IN  IF d \in {"bool", "boolean"} THEN v.k = "bool"
      ELSE IF d \in {"int", "integer", "int32", "int64", "uint16", "uint32"}
           THEN v.k = "int"
      ELSE IF d \in {"float", "double", "number"} THEN v.k = "float"
      ELSE v.k \in {"text", "strint", "strfloat"}

FallbackWrites ==
  {j \in DOMAIN ops : ops[j].op = "write" /\ ops[j].ok /\ FallsBack(bindings[ops[j].b])}

----------------------------------------------------------------------------
(* Progress of the loop (SpecLive) *)

\* the tick has just attempted the write of binding b and rescheduled it
WriteAttempted(b) ==
  /\ pc = "tick"
  /\ bi = b + 1
  /\ Len(visited) = b
  /\ visited[b].out \in {"written", "writefail"}
  /\ ~(bindings[b].next_due < now + IntervalOf(bindings[b]))

\* C17: retry until a read succeeds. A binding that is due when a tick
\* reaches it is read in that tick; and, the loop being kept running and the
\* reads of no binding failing forever, every binding of the registry has its
\* write attempted and its next_due advanced again and again.
EveryBindingWrittenAgain ==
  /\ [](InTick =>
          \A i \in DOMAIN visited :
            ~(now < tickStart[i].next_due) =>
              \E j \in DOMAIN ops : ops[j].b = i /\ ops[j].op = "read")
  /\ \A b \in 1 .. MaxVars :
       [](pc = "run" /\ b <= Len(bindings) => <>WriteAttempted(b))

----------------------------------------------------------------------------
(* Failures inside a tick (Spec) *)

ReadsOf(c) == {j \in OpsOf(c) : ops[j].op = "read"}
WritesOf(c) == {j \in OpsOf(c) : ops[j].op = "write"}

\* what binding c, as it was when the tick began, may write for the value read
Computed(c, held) ==
  {[val |-> cast(tickStart[c].dtype, g.new_value), cycle_index |-> g.cycle_index,
    phase |-> g.phase] :
     g \in Generate(tickStart[c], held, IntervalOf(tickStart[c]))}

\* C18: failure isolation within a tick. A read failure or a write failure
\* does not stop the tick: the loop goes on to the next binding, a tick that
\* returns has gone through every binding, and a tick is left early only by a
\* conversion that raised. Whatever happened to the bindings before it, a
\* binding the tick has gone through was read exactly once if it was due when
\* the tick began and not at all otherwise, was written at most once, and what
\* was written and the state it is left with are computed from its own state
\* at the start of the tick and the value read.
FailureIsolation ==
  InTick =>
    /\ pc = "tick" => bi = Len(visited) + 1
    /\ pc = "sleep" => Len(visited) = Len(bindings)
    /\ pc = "raised" => visited[Len(visited)].out = "raised"
    /\ \A c \in DOMAIN visited :
         LET due == ~(now < tickStart[c].next_due)
             out == visited[c].out
         IN  /\ visited[c].b = c
             /\ Cardinality(ReadsOf(c)) = (IF due THEN 1 ELSE 0)
             /\ Cardinality(WritesOf(c)) =
                  (IF out \in {"written", "writefail"} THEN 1 ELSE 0)
             /\ due <=> out # "notdue"
             /\ out = "raised" => c = Len(visited)
             /\ \A j \in WritesOf(c) :
                  /\ ops[j].ok <=> out = "written"
                  /\ [val |-> ops[j].val, cycle_index |-> bindings[c].cycle_index,
                      phase |-> bindings[c].phase] \in Computed(c, ops[j - 1].val)

\* a tick went on after the first binding's read or write failed and wrote the
\* second binding
FailureIsolationWitness ==
  /\ pc = "sleep"
  /\ Len(visited) = 2
  /\ visited[1].out \in {"readfail", "writefail"}
  /\ visited[2].out = "written"

----------------------------------------------------------------------------
(* The cycle index (Spec) *)

\* the values entry of the binding, as configured
ValuesOf(b) ==
  IF Get(b.simulation, "values_scalar", FALSE) THEN <<>>
  ELSE Get(b.simulation, "values", <<>>)

CycleIndexBounds ==
  \A b \in DOMAIN bindings :
    /\ bindings[b].cycle_index >= 0
    /\ (ModeOf(bindings[b]) = "cycle" /\ ValuesOf(bindings[b]) # <<>>) =>
         bindings[b].cycle_index < Len(ValuesOf(bindings[b]))
    /\ (ModeOf(bindings[b]) # "cycle" \/ ValuesOf(bindings[b]) = <<>>) =>
         bindings[b].cycle_index = 0

\* a step that changes the cycle index of a binding is a step of a tick on
\* that binding, which is in cycle mode and due, and whose read succeeded
CycleIndexStep ==
  \A b \in DOMAIN bindings :
    (b \in DOMAIN bindings' /\ bindings'[b].cycle_index # bindings[b].cycle_index) =>
      /\ pc = "tick"
      /\ bi = b
      /\ ModeOf(bindings[b]) = "cycle"
      /\ ~(now < bindings[b].next_due)
      /\ Len(ops') > Len(ops)
      /\ ops'[Len(ops) + 1] = [op |-> "read", b |-> b, ok |-> TRUE,
                               val |-> nodes[bindings[b].node].value, gen |-> NoValue]
      /\ bindings'[b].cycle_index =
           (bindings[b].cycle_index + 1) % Len(ValuesOf(bindings[b]))

\* C19: the cycle index stays in range. In every state, a cycle binding with a
\* non-empty values list has 0 <= cycle_index < len(values), and a binding of
\* any other mode, or with no values, has cycle_index = 0; and the only step
\* that changes a cycle_index is a tick's pass over a due cycle-mode binding
\* whose read succeeded, which steps it by one modulo len(values).
CycleIndexInRange == [](CycleIndexBounds) /\ [][CycleIndexStep]_vars

\* a cycle over four values has gone round: the index is back at 0 after a
\* step from 3
CycleIndexInRangeWitness ==
  /\ InTick
  /\ \E b \in DOMAIN bindings :
       /\ ModeOf(bindings[b]) = "cycle"
       /\ Len(ValuesOf(bindings[b])) = 4
       /\ tickStart[b].cycle_index = 3
       /\ bindings[b].cycle_index = 0

\* the bindings that cycle over a non-empty list
Cycling == {b \in DOMAIN bindings :
              ModeOf(bindings[b]) = "cycle" /\ ValuesOf(bindings[b]) # <<>>}

\* the cycling bindings on a node no client can write, once a write was attempted
CyclingAlone ==
  {b \in Cycling : ~nodes[bindings[b].node].writable /\ hist[b].tried >= 0}

\* values[cycle_index], coerced to the declared type
Selected(b) ==
  cast(bindings[b].dtype, ValuesOf(bindings[b])[bindings[b].cycle_index + 1])

\* values[cycle_index - 1], coerced to the declared type
SelectedBefore(b) ==
  LET n == Len(ValuesOf(bindings[b]))
  IN  cast(bindings[b].dtype,
           ValuesOf(bindings[b])[((bindings[b].cycle_index + n - 1) % n) + 1])

\* a write of a cycling binding, failed or not, comes with the index stepped by
\* one and is of the element at the new index
WriteStepsCycle ==
  InTick =>
    \A j \in DOMAIN ops :
      (ops[j].op = "write" /\ ops[j].b \in Cycling) =>
        LET c == ops[j].b
        IN  /\ bindings[c].cycle_index =
                 (tickStart[c].cycle_index + 1) % Len(ValuesOf(bindings[c]))
            /\ ops[j].gen = ValuesOf(bindings[c])[bindings[c].cycle_index + 1]
            /\ ops[j].val = Selected(c)
            /\ pc = "tick" =>
                 nodes[bindings[c].node].value =
                   (IF ops[j].ok THEN Selected(c) ELSE ops[j - 1].val)

\* C20 as claimed: a failed write still steps cycle_index; without client
\* writes, after a successful write the node holds values[cycle_index] (read
\* here as coerced to the declared type), and after a failed write the node's
\* value and values[cycle_index] differ until the next successful write.
LostWriteLeavesGap ==
  /\ WriteStepsCycle
  /\ pc # "raised" =>
       \A b \in CyclingAlone :
         IF hist[b].failed
         THEN nodes[bindings[b].node].value # Selected(b)
         ELSE nodes[bindings[b].node].value = Selected(b)

\* C20: the generator state advances even when the write is lost. For a cycle
\* binding with a non-empty list, a due tick whose read succeeds steps
\* cycle_index by one modulo len(values) whether the write succeeds or fails; a
\* failed write leaves the node's value as it was read, a successful one
\* leaves values[cycle_index] coerced to the declared type. So, without client
\* writes, the node holds the coerced values[cycle_index] as long as the last
\* write attempt succeeded, and the coerced values[cycle_index - 1] when the
\* last attempt failed right after one that succeeded.
LostWriteAdvancesCycle ==
  /\ WriteStepsCycle
  /\ pc # "raised" =>
       \A b \in CyclingAlone :
         /\ ~hist[b].failed => nodes[bindings[b].node].value = Selected(b)
         /\ (hist[b].failed /\ hist[b].prev >= 0 /\ ~hist[b].prevfailed) =>
              nodes[bindings[b].node].value = SelectedBefore(b)

\* a write was lost right after one that succeeded, on a cycle over more than
\* one value: the index has moved on and the node still holds the element before
LostWriteAdvancesCycleWitness ==
  /\ pc = "tick"
  /\ \E b \in CyclingAlone :
       /\ hist[b].failed /\ hist[b].prev >= 0 /\ ~hist[b].prevfailed
       /\ visited # <<>> /\ visited[Len(visited)] = Visit(b, "writefail")
       /\ Len(ValuesOf(bindings[b])) > 1
       /\ nodes[bindings[b].node].value # Selected(b)

====
